---- MODULE Spec2Model ----
(***************************************************************************)
(* Model of spog/ui/crates/components/src/download.rs: the SPDX to         *)
(* CycloneDX converter (generate_cyclonedx), the purpose table             *)
(* (spdx_purpose_to_classification), the file name sanitizer               *)
(* (safe_filename) and the SbomKebabDropdown component that calls them.    *)
(*                                                                         *)
(* Strings whose characters matter (names, versions, descriptions,         *)
(* reference types, ids, file names) are sequences of characters; a        *)
(* character is a one-letter string, or one of TAB, CR, LF, EACUTE.       *)
(* Option<T> is a sequence of length 0 (None) or 1 (Some).                 *)
(***************************************************************************)
EXTENDS Naturals, Sequences, FiniteSets, TLC

VARIABLES
    \* ---- generate_cyclonedx, step by step
    pc,            \* position in generate_cyclonedx
    doc,           \* the argument spdx: its package_information
    bom,           \* the local bom
    components,    \* the local components
    output,        \* the local output buffer
    result,        \* the value returned: None while running
    \* ---- safe_filename
    fn_input,      \* the argument input
    fn_output,     \* the value returned: None before the call
    \* ---- SbomKebabDropdown
    props,         \* id, sbom_source, spdx
    local_file,    \* use_state_eq(|| None)
    effect_due,    \* the use_effect_with(local_file) run the renderer owes
    href,          \* window.location.href as set by the handlers
    anchor,        \* the last <a download> the effect clicked
    log,           \* the last log::error! line
    panicked       \* an expect() of the effect failed

vars == <<pc, doc, bom, components, output, result, fn_input, fn_output,
          props, local_file, effect_due, href, anchor, log, panicked>>

convVars == <<pc, doc, bom, components, output, result>>
fnVars == <<fn_input, fn_output>>
uiVars == <<props, local_file, effect_due, href, anchor, log, panicked>>

-----------------------------------------------------------------------------
\* Bounds of the model

MaxPackages == 2
MaxRefs == 2
MaxLen == 3

-----------------------------------------------------------------------------
\* Option and characters

None == <<>>
Some(x) == <<x>>
IsSome(o) == Len(o) = 1
IsNone(o) == Len(o) = 0

TAB == "TAB"
CR == "CR"
LF == "LF"
SP == " "
EACUTE == "U+00E9"

AsciiUpper == <<"A", "B", "C", "D", "E", "F", "G", "H", "I", "J", "K", "L", "M",
                "N", "O", "P", "Q", "R", "S", "T", "U", "V", "W", "X", "Y", "Z">>
AsciiLower == <<"a", "b", "c", "d", "e", "f", "g", "h", "i", "j", "k", "l", "m",
                "n", "o", "p", "q", "r", "s", "t", "u", "v", "w", "x", "y", "z">>
AsciiDigit == {"0", "1", "2", "3", "4", "5", "6", "7", "8", "9"}

Range(s) == {s[i] : i \in 1..Len(s)}

\* u8::to_ascii_lowercase, as eq_ignore_ascii_case applies it
to_ascii_lowercase(ch) ==
    IF \E i \in 1..26 : AsciiUpper[i] = ch
    THEN AsciiLower[CHOOSE i \in 1..26 : AsciiUpper[i] = ch]
    ELSE ch

eq_ignore_ascii_case(a, b) ==
    /\ Len(a) = Len(b)
    /\ \A i \in 1..Len(a) : to_ascii_lowercase(a[i]) = to_ascii_lowercase(b[i])

\* all sequences over S of length at most n
SeqsUpTo(S, n) == UNION {[1..k -> S] : k \in 0..n}

-----------------------------------------------------------------------------
\* Result<T>

Ok(x) == [ok |-> TRUE, value |-> x]
Err(e) == [ok |-> FALSE, error |-> e]

-----------------------------------------------------------------------------
\* The external types the converter builds its components from

\* spdx_rs::models::PrimaryPackagePurpose
PrimaryPackagePurpose ==
    {"Application", "Framework", "Library", "Container", "OperatingSystem",
     "Device", "Firmware", "Source", "Archive", "File", "Install", "Other"}

\* cyclonedx_bom::models::component::Classification, as the converter uses it
Classification ==
    {"Application", "Framework", "Library", "Container", "OperatingSystem",
     "Device", "Firmware", "File"}

\* NormalizedString::new: "\r\n" becomes one space, then every remaining
\* '\r', '\n' and '\t' becomes a space
RECURSIVE ReplaceCrLf(_)
ReplaceCrLf(s) ==
    IF Len(s) = 0 THEN <<>>
    ELSE IF Len(s) >= 2 /\ s[1] = CR /\ s[2] = LF
         THEN <<SP>> \o ReplaceCrLf(SubSeq(s, 3, Len(s)))
         ELSE <<s[1]>> \o ReplaceCrLf(Tail(s))

NormalizedString_new(value) ==
    LET v == ReplaceCrLf(value)
    IN  [i \in 1..Len(v) |-> IF v[i] \in {CR, LF, TAB} THEN SP ELSE v[i]]

\* Component::new(component_type, name, version, bom_ref): name and version
\* are normalized, the version is present, every other field is unset
Component_new(component_type, name, version, bom_ref) ==
    [component_type |-> component_type,
     name |-> NormalizedString_new(name),
     version |-> Some(NormalizedString_new(version)),
     bom_ref |-> bom_ref,
     description |-> None,
     purl |-> None]

\* The locators packageurl accepts, among the locators of the model
ParsableLocator == {"pkg:npm/foo@1.0.0", "pkg:generic/curl@8.1.0"}

\* Purl::from_str: Ok(Purl) for a well-formed package URL, Err otherwise;
\* a Purl is represented by the text it was parsed from
Purl_from_str(s) ==
    IF s \in ParsableLocator THEN Ok([purl |-> s]) ELSE Err("InvalidPurl")

\* Bom::default(): version 1, a fresh random serial number, no components
Bom_default(serial) ==
    [version |-> 1,
     serial_number |-> Some(serial),
     spec_version |-> "1.3",
     components |-> None]

\* the serial numbers Bom::default() may draw
SerialNumber == {"urn:uuid:1", "urn:uuid:2"}

-----------------------------------------------------------------------------
\* spdx_purpose_to_classification

\* the table with Install filed under Library
spdx_purpose_to_classification_InstallLibrary(purpose) ==
    CASE purpose \in {"Application", "Other"} -> "Application"
      [] purpose \in {"Library", "Install"} -> "Library"
      [] purpose \in {"Source", "Archive", "File"} -> "File"
      [] OTHER -> purpose

spdx_purpose_to_classification(purpose) ==
    CASE purpose = "Application" -> "Application"
      [] purpose = "Framework" -> "Framework"
      [] purpose = "Library" -> "Library"
      [] purpose = "Container" -> "Container"
      [] purpose = "OperatingSystem" -> "OperatingSystem"
      [] purpose = "Device" -> "Device"
      [] purpose = "Firmware" -> "Firmware"
      [] purpose = "Source" -> "File"
      [] purpose = "Archive" -> "File"
      [] purpose = "File" -> "File"
      [] purpose = "Install" -> "Application"
      [] purpose = "Other" -> "Application"

-----------------------------------------------------------------------------
\* generate_cyclonedx: the body of the loop over spdx.package_information

PURL == <<"p", "u", "r", "l">>

\* find with a comparison that minds the case
find_purl_ref_Exact(external_reference) ==
    LET hits == {i \in 1..Len(external_reference) :
                    external_reference[i].reference_type = PURL}
    IN  IF hits = {} THEN None
        ELSE Some(external_reference[CHOOSE i \in hits : \A j \in hits : i <= j])

\* Iterator::find over external_reference: the first purl reference, if any
find_purl_ref(external_reference) ==
    LET hits == {i \in 1..Len(external_reference) :
                    eq_ignore_ascii_case(external_reference[i].reference_type, PURL)}
    IN  IF hits = {} THEN None
        ELSE Some(external_reference[CHOOSE i \in hits : \A j \in hits : i <= j])

\* lines 189-193
package_classification(package) ==
    IF IsSome(package.primary_package_purpose)
    THEN spdx_purpose_to_classification(package.primary_package_purpose[1])
    ELSE "Library"

\* the placeholder version left in place
with_version_Placeholder(package, classification) ==
    Component_new(classification, package.package_name,
                  IF IsSome(package.package_version)
                  THEN package.package_version[1] ELSE <<>>,
                  Some(package.package_spdx_identifier))

\* lines 195-205
with_version(package, classification) ==
    LET default_version == IF IsSome(package.package_version)
                           THEN package.package_version[1] ELSE <<>>
        component == Component_new(classification, package.package_name,
                                   default_version,
                                   Some(package.package_spdx_identifier))
    IN  IF IsNone(package.package_version)
        THEN [component EXCEPT !.version = None]
        ELSE component

\* the detailed description preferred to the summary
with_description_DetailedFirst(package, component) ==
    LET description == IF IsSome(package.package_detailed_description)
                       THEN package.package_detailed_description
                       ELSE package.package_summary_description
    IN  IF IsSome(description)
        THEN [component EXCEPT !.description = Some(NormalizedString_new(description[1]))]
        ELSE component

\* lines 207-213
with_description(package, component) ==
    LET description == IF IsSome(package.package_summary_description)
                       THEN package.package_summary_description
                       ELSE package.package_detailed_description
    IN  IF IsSome(description)
        THEN [component EXCEPT !.description = Some(NormalizedString_new(description[1]))]
        ELSE component

\* the locator taken over without parsing it
with_purl_Unparsed(package, component) ==
    LET purl_ref == find_purl_ref(package.external_reference)
    IN  IF IsSome(purl_ref)
        THEN [component EXCEPT !.purl = Some([purl |-> purl_ref[1].reference_locator])]
        ELSE component

\* lines 215-223
with_purl(package, component) ==
    LET purl_ref == find_purl_ref(package.external_reference)
    IN  IF IsSome(purl_ref) /\ Purl_from_str(purl_ref[1].reference_locator).ok
        THEN [component EXCEPT
                 !.purl = Some(Purl_from_str(purl_ref[1].reference_locator).value)]
        ELSE component

\* one iteration: the component pushed for a package
package_component(package) ==
    with_purl(package,
        with_description(package,
            with_version(package, package_classification(package))))

-----------------------------------------------------------------------------
\* Bom::output_as_json(_, SpecVersion::V1_4): a JSON object is a function from
\* its keys; a field that is None has no key

\* the serde names of Classification
classification_json(c) ==
    CASE c = "Application" -> "application"
      [] c = "Framework" -> "framework"
      [] c = "Library" -> "library"
      [] c = "Container" -> "container"
      [] c = "OperatingSystem" -> "operating-system"
      [] c = "Device" -> "device"
      [] c = "Firmware" -> "firmware"
      [] c = "File" -> "file"

EmptyObject == [k \in {} |-> {}]

Field(key, option) == IF IsSome(option) THEN key :> option[1] ELSE EmptyObject

component_json(c) ==
    ("type" :> classification_json(c.component_type))
    @@ Field("bom-ref", c.bom_ref)
    @@ ("name" :> c.name)
    @@ Field("version", c.version)
    @@ Field("description", c.description)
    @@ Field("purl", IF IsSome(c.purl) THEN Some(c.purl[1].purl) ELSE None)

output_as_json(b) ==
    ("bomFormat" :> "CycloneDX")
    @@ ("specVersion" :> b.spec_version)
    @@ ("version" :> b.version)
    @@ Field("serialNumber", b.serial_number)
    @@ Field("components",
             IF IsSome(b.components)
             THEN Some([i \in 1..Len(b.components[1]) |-> component_json(b.components[1][i])])
             ELSE None)

NoPackages == "No packages found in SPDX document"

\* generate_cyclonedx as its callers see it, for the serial number drawn
loop_components(spdx) == [i \in 1..Len(spdx) |-> package_component(spdx[i])]

generate_cyclonedx(spdx, serial) ==
    LET b == [Bom_default(serial) EXCEPT !.spec_version = "1.4"]
        cs == loop_components(spdx)
    IN  IF cs = <<>> THEN Err(NoPackages)
        ELSE Ok(output_as_json([b EXCEPT !.components = Some(cs)]))

-----------------------------------------------------------------------------
\* The source documents of the model

BasePackage ==
    [package_name |-> <<"a">>,
     package_version |-> Some(<<"1">>),
     package_spdx_identifier |-> "SPDXRef-1",
     primary_package_purpose |-> None,
     package_summary_description |-> None,
     package_detailed_description |-> None,
     external_reference |-> <<>>]

PackageNames == {<<"a">>, <<"b">>, <<"a", TAB, "b">>}
PackageVersions == {None, Some(<<>>), Some(<<"1">>), Some(<<"1", CR, LF, "2">>)}
PackageIds == {"SPDXRef-1", "SPDXRef-2"}
Summaries == {None, Some(<<"s">>), Some(<<"s", LF, "s">>)}
Descriptions == {None, Some(<<"d">>), Some(<<"d", CR, "d">>)}

ReferenceTypes == {PURL, <<"P", "U", "R", "L">>, <<"c", "p", "e">>}
ReferenceLocators == {"pkg:npm/foo@1.0.0", "pkg:generic/curl@8.1.0", "not-a-purl"}
References ==
    [reference_type : ReferenceTypes, reference_locator : ReferenceLocators]

\* the plain packages: they differ in name and identifier only
PlainPackages ==
    {BasePackage,
     [BasePackage EXCEPT !.package_name = <<"b">>,
                         !.package_spdx_identifier = "SPDXRef-2"]}

\* the packages: BasePackage with one group of fields varied
Packages ==
    {[BasePackage EXCEPT !.primary_package_purpose = p] :
        p \in {None} \cup {Some(t) : t \in PrimaryPackagePurpose}}
    \cup {[BasePackage EXCEPT !.package_name = n,
                              !.package_spdx_identifier = i,
                              !.package_version = v] :
            n \in PackageNames, i \in PackageIds, v \in PackageVersions}
    \cup {[BasePackage EXCEPT !.package_summary_description = sd,
                              !.package_detailed_description = dd] :
            sd \in Summaries, dd \in Descriptions}
    \cup {[BasePackage EXCEPT !.external_reference = r] :
            r \in SeqsUpTo(References, MaxRefs)}

\* the documents: up to MaxPackages plain packages, one of them replaced by
\* any package
Documents ==
    {<<>>} \cup
    UNION {{[plain EXCEPT ![i] = p] :
                plain \in [1..n -> PlainPackages], i \in 1..n, p \in Packages} :
           n \in 1..MaxPackages}

-----------------------------------------------------------------------------
\* generate_cyclonedx, one step per statement group

InitUi ==
    /\ props = [id |-> <<>>, sbom_source |-> [kind |-> "URL", url |-> None], spdx |-> None]
    /\ local_file = None
    /\ effect_due = FALSE
    /\ href = None
    /\ anchor = None
    /\ log = None
    /\ panicked = FALSE

InitFn ==
    /\ fn_input = <<>>
    /\ fn_output = None

InitConv ==
    /\ pc = "call"
    /\ bom = None
    /\ components = <<>>
    /\ output = None
    /\ result = None

InitConvert ==
    /\ doc \in Documents
    /\ InitConv
    /\ InitFn
    /\ InitUi

\* lines 183-186
GenerateBegin ==
    /\ pc = "call"
    /\ \E serial \in SerialNumber :
          bom' = Some([Bom_default(serial) EXCEPT !.spec_version = "1.4"])
    /\ components' = <<>>
    /\ pc' = "loop"
    /\ UNCHANGED <<doc, output, result>>
    /\ UNCHANGED <<fnVars, uiVars>>

\* the component put in front of the earlier ones
GenerateLoop_Prepend ==
    /\ pc = "loop"
    /\ Len(components) < Len(doc)
    /\ components' = <<package_component(doc[Len(components) + 1])>> \o components
    /\ UNCHANGED <<pc, doc, bom, output, result>>
    /\ UNCHANGED <<fnVars, uiVars>>

\* lines 188-226, one iteration
GenerateLoop ==
    /\ pc = "loop"
    /\ Len(components) < Len(doc)
    /\ components' = Append(components, package_component(doc[Len(components) + 1]))
    /\ UNCHANGED <<pc, doc, bom, output, result>>
    /\ UNCHANGED <<fnVars, uiVars>>

\* no check for an empty list of components
GenerateCheck_NoBail ==
    /\ pc = "loop"
    /\ Len(components) = Len(doc)
    /\ bom' = Some([bom[1] EXCEPT !.components = Some(components)])
    /\ pc' = "serialize"
    /\ UNCHANGED <<doc, components, output, result>>
    /\ UNCHANGED <<fnVars, uiVars>>

\* lines 228-232
GenerateCheck ==
    /\ pc = "loop"
    /\ Len(components) = Len(doc)
    /\ IF components = <<>>
       THEN /\ result' = Some(Err(NoPackages))
            /\ pc' = "return"
            /\ bom' = bom
       ELSE /\ bom' = Some([bom[1] EXCEPT !.components = Some(components)])
            /\ pc' = "serialize"
            /\ result' = result
    /\ UNCHANGED <<doc, components, output>>
    /\ UNCHANGED <<fnVars, uiVars>>

\* lines 234-237
GenerateSerialize ==
    /\ pc = "serialize"
    /\ output' = Some(output_as_json(bom[1]))
    /\ result' = Some(Ok(output_as_json(bom[1])))
    /\ pc' = "return"
    /\ UNCHANGED <<doc, bom, components>>
    /\ UNCHANGED <<fnVars, uiVars>>

NextConvert ==
    \/ GenerateBegin
    \/ GenerateLoop
    \/ GenerateCheck
    \/ GenerateSerialize

SpecConvert == InitConvert /\ [][NextConvert]_vars

-----------------------------------------------------------------------------
\* safe_filename

\* the dot not among the kept characters
IsSafeChar_NoDot(ch) ==
    \/ ch \in Range(AsciiLower)
    \/ ch \in Range(AsciiUpper)
    \/ ch \in AsciiDigit
    \/ ch \in {"-", "_"}

IsSafeChar(ch) ==
    \/ ch \in Range(AsciiLower)
    \/ ch \in Range(AsciiUpper)
    \/ ch \in AsciiDigit
    \/ ch \in {"-", "_", "."}

SBOM == <<"s", "b", "o", "m">>

\* no fallback for an empty result
safe_filename_NoFallback(input) ==
    [i \in 1..Len(input) |-> IF IsSafeChar(input[i]) THEN input[i] ELSE "_"]

safe_filename(input) ==
    LET sanitized == [i \in 1..Len(input) |->
                         IF IsSafeChar(input[i]) THEN input[i] ELSE "_"]
    IN  IF Len(sanitized) = 0 THEN SBOM ELSE sanitized

\* the characters of the inputs: letters, a digit, the three kept marks,
\* and characters that are replaced (one of them outside ASCII)
FilenameChars == {"a", "Z", "7", "-", "_", ".", "!", SP, "/", EACUTE}

InitFilename ==
    /\ fn_input \in SeqsUpTo(FilenameChars, MaxLen)
    /\ fn_output = None
    /\ doc = <<>>
    /\ InitConv
    /\ InitUi

\* safe_filename(input)
SafeFilenameCall ==
    /\ IsNone(fn_output)
    /\ fn_output' = Some(safe_filename(fn_input))
    /\ UNCHANGED fn_input
    /\ UNCHANGED <<convVars, uiVars>>

\* safe_filename applied to what it returned
SafeFilenameAgain ==
    /\ IsSome(fn_output)
    /\ fn_input' = fn_output[1]
    /\ fn_output' = Some(safe_filename(fn_output[1]))
    /\ UNCHANGED <<convVars, uiVars>>

NextFilename ==
    \/ SafeFilenameCall
    \/ SafeFilenameAgain

SpecFilename == InitFilename /\ [][NextFilename]_vars

-----------------------------------------------------------------------------
\* SbomKebabDropdown

SourceUrl(u) == [kind |-> "URL", url |-> u]
SourceLocal(data, filename) == [kind |-> "LOCAL", data |-> data, filename |-> filename]

\* the text of a file: what was loaded, or what the converter serialized
RawText(t) == [raw |-> t]
JsonText(j) == [json |-> j]

Suffix == <<"-", "c", "y", "c", "l", "o", "n", "e", "d", "x", ".", "j", "s", "o", "n">>

\* the properties the parent may pass
ComponentIds == {<<>>, <<"a", "/", "b">>}
ComponentSources ==
    {SourceUrl(None), SourceUrl(Some([location |-> "https://sbom"])),
     SourceLocal(RawText("spdx"), <<"a", ".", "j", "s", "o", "n">>)}
ComponentDocuments == {<<>>, <<BasePackage>>}
ComponentProps ==
    [id : ComponentIds,
     sbom_source : ComponentSources,
     spdx : {None} \cup {Some(d) : d \in ComponentDocuments}]

\* Url::latest_access_token: the url with the token of the session
latest_access_token(url) == [url |-> url, access_token |-> "token"]

\* local_file cleared when the conversion fails
on_generate_cyclonedx_click_ClearOnError(spdx, id, serial) ==
    IF IsSome(spdx)
    THEN LET r == generate_cyclonedx(spdx[1], serial)
         IN  IF r.ok
             THEN [set |-> Some(Some(<<JsonText(r.value), safe_filename(id) \o Suffix>>)),
                   log |-> None]
             ELSE [set |-> Some(None),
                   log |-> Some(<<"Failed to generate CycloneDX SBOM: ", r.error>>)]
    ELSE [set |-> None, log |-> None]

\* lines 71-83: the value given to local_file.set (None: set is not called)
\* and the line logged (None: nothing is logged)
on_generate_cyclonedx_click(spdx, id, serial) ==
    IF IsSome(spdx)
    THEN LET r == generate_cyclonedx(spdx[1], serial)
         IN  IF r.ok
             THEN [set |-> Some(Some(<<JsonText(r.value), safe_filename(id) \o Suffix>>)),
                   log |-> None]
             ELSE [set |-> None,
                   log |-> Some(<<"Failed to generate CycloneDX SBOM: ", r.error>>)]
    ELSE [set |-> None, log |-> None]

\* lines 52-62
on_download_sbom_click(sbom_source) ==
    IF sbom_source.kind = "URL"
    THEN [set |-> None,
          href |-> IF IsSome(sbom_source.url)
                   THEN Some(latest_access_token(sbom_source.url[1])) ELSE None]
    ELSE [set |-> Some(Some(<<sbom_source.data, sbom_source.filename>>)),
          href |-> None]

\* the first render: the effect is owed once, local_file is None
Init ==
    /\ props \in ComponentProps
    /\ local_file = None
    /\ effect_due = TRUE
    /\ href = None
    /\ anchor = None
    /\ log = None
    /\ panicked = FALSE
    /\ doc = <<>>
    /\ InitConv
    /\ InitFn

\* a handler runs when the page is alive and the renderer owes nothing
Idle == ~effect_due /\ ~panicked

\* UseStateEqHandle::set: the state changes, and the component renders again
\* with its effect, only when the value differs
StateSet(value) ==
    /\ local_file' = value
    /\ effect_due' = (value # local_file)

DownloadSbomClick ==
    /\ Idle
    /\ LET h == on_download_sbom_click(props.sbom_source)
       IN  /\ IF IsSome(h.set) THEN StateSet(h.set[1])
                               ELSE UNCHANGED <<local_file, effect_due>>
           /\ href' = IF IsSome(h.href) THEN h.href ELSE href
    /\ UNCHANGED <<props, anchor, log, panicked>>
    /\ UNCHANGED <<convVars, fnVars>>

\* the menu entry exists only when props.spdx is Some (line 132)
GenerateCycloneDXClick ==
    /\ Idle
    /\ IsSome(props.spdx)
    /\ \E serial \in SerialNumber :
          LET h == on_generate_cyclonedx_click(props.spdx, props.id, serial)
          IN  /\ IF IsSome(h.set) THEN StateSet(h.set[1])
                                  ELSE UNCHANGED <<local_file, effect_due>>
              /\ log' = IF IsSome(h.log) THEN h.log ELSE log
    /\ UNCHANGED <<props, href, anchor, panicked>>
    /\ UNCHANGED <<convVars, fnVars>>

\* lines 86-94: backend.join may fail
DownloadLicensesClick ==
    /\ Idle
    /\ \E joined \in BOOLEAN :
          href' = IF joined
                  THEN Some(latest_access_token(
                            [endpoint |-> "Api",
                             path |-> <<"/api/v1/sbom/license/", props.id>>]))
                  ELSE href
    /\ UNCHANGED <<props, local_file, effect_due, anchor, log, panicked>>
    /\ UNCHANGED <<convVars, fnVars>>

\* lines 96-123: the effect of a render in which local_file changed; the
\* object URL may not be created, and an expect() on the DOM may fail
LocalFileEffect ==
    /\ effect_due
    /\ ~panicked
    /\ effect_due' = FALSE
    /\ IF IsSome(local_file)
       THEN \E url_ok \in BOOLEAN, dom_ok \in BOOLEAN :
               /\ anchor' = IF url_ok /\ dom_ok THEN local_file ELSE anchor
               /\ panicked' = (url_ok /\ ~dom_ok)
       ELSE UNCHANGED <<anchor, panicked>>
    /\ UNCHANGED <<props, local_file, href, log>>
    /\ UNCHANGED <<convVars, fnVars>>

\* the parent renders the component with other properties
PropsChange ==
    /\ Idle
    /\ props' \in ComponentProps \ {props}
    /\ UNCHANGED <<local_file, effect_due, href, anchor, log, panicked>>
    /\ UNCHANGED <<convVars, fnVars>>

Next ==
    \/ DownloadSbomClick
    \/ GenerateCycloneDXClick
    \/ DownloadLicensesClick
    \/ LocalFileEffect
    \/ PropsChange

Spec == Init /\ [][Next]_vars

-----------------------------------------------------------------------------
\* What the claims speak of

Returned == pc = "return"
ReturnedOk == Returned /\ result[1].ok

\* the components of the document returned
Out == result[1].value["components"]

Has(object, key) == key \in DOMAIN object

\* a text with each "\r\n", and each other '\r', '\n' and '\t', as one space
RECURSIVE Spaced(_)
Spaced(s) ==
    LET n == Len(s)
    IN  IF n = 0 THEN <<>>
        ELSE IF n >= 2 /\ s[n - 1] = CR /\ s[n] = LF
             THEN Spaced(SubSeq(s, 1, n - 2)) \o <<SP>>
             ELSE Spaced(SubSeq(s, 1, n - 1))
                  \o <<IF s[n] \in {CR, LF, TAB} THEN SP ELSE s[n]>>

\* the purpose table of the specification
PurposeTable ==
    [Application |-> "application", Framework |-> "framework",
     Library |-> "library", Container |-> "container",
     OperatingSystem |-> "operating-system", Device |-> "device",
     Firmware |-> "firmware", Source |-> "file", Archive |-> "file",
     File |-> "file", Install |-> "application", Other |-> "application"]

\* "purl" in any mix of upper and lower case
IsPurlType(t) ==
    /\ Len(t) = 4
    /\ t[1] \in {"p", "P"}
    /\ t[2] \in {"u", "U"}
    /\ t[3] \in {"r", "R"}
    /\ t[4] \in {"l", "L"}

PurlIndexes(package) ==
    {k \in 1..Len(package.external_reference) :
        IsPurlType(package.external_reference[k].reference_type)}

FirstPurl(package) ==
    package.external_reference[
        CHOOSE k \in PurlIndexes(package) : \A j \in PurlIndexes(package) : k <= j]

\* C1 as stated: a document of N >= 1 packages converts to N components, the
\* i-th with the i-th package's identifier as bom-ref and its name as name.
C1_AsStated ==
    (Returned /\ Len(doc) >= 1) =>
        /\ result[1].ok
        /\ Len(Out) = Len(doc)
        /\ \A i \in 1..Len(doc) :
              /\ Out[i]["bom-ref"] = doc[i].package_spdx_identifier
              /\ Out[i]["name"] = doc[i].package_name

\* C1 amended: a document of N >= 1 packages converts to N components, the
\* i-th with the i-th package's identifier as bom-ref and, as name, its name
\* with each CRLF and each other CR, LF and tab replaced by one space.
C1_OnePerPackageInOrder ==
    (Returned /\ Len(doc) >= 1) =>
        /\ result[1].ok
        /\ Len(Out) = Len(doc)
        /\ \A i \in 1..Len(doc) :
              /\ Out[i]["bom-ref"] = doc[i].package_spdx_identifier
              /\ Out[i]["name"] = Spaced(doc[i].package_name)

C1_Witness ==
    /\ ReturnedOk
    /\ Len(doc) >= 2
    /\ doc[1].package_spdx_identifier # doc[2].package_spdx_identifier
    /\ \E i \in 1..Len(doc) : TAB \in Range(doc[i].package_name)

\* C2: the conversion fails exactly when the document has no package; it then
\* fails with the no-packages error, nothing having been serialized.
C2_EmptyRejected ==
    Returned =>
        /\ ~result[1].ok <=> Len(doc) = 0
        /\ ~result[1].ok => (result[1].error = NoPackages /\ IsNone(output))

C2_Witness == Returned /\ Len(doc) = 0 /\ ~result[1].ok

\* C3: every component built has the classification the table gives for its
\* package's purpose, and Library for a package without one; the type is never
\* missing from the component returned.
C3_ClassificationTotal ==
    /\ \A i \in 1..Len(components) :
          components[i].component_type \in Classification
    /\ ReturnedOk =>
          \A i \in 1..Len(doc) :
             /\ Has(Out[i], "type")
             /\ Out[i]["type"] =
                   IF IsSome(doc[i].primary_package_purpose)
                   THEN PurposeTable[doc[i].primary_package_purpose[1]]
                   ELSE "library"

C3_Witness ==
    /\ ReturnedOk
    /\ \E i \in 1..Len(doc) :
          /\ doc[i].primary_package_purpose = Some("Install")
          /\ Out[i]["type"] = "application"

\* C4: the package URL of a component comes from the first reference whose
\* type is "purl" in any case, and from no other: it is that locator parsed,
\* and absent when that locator does not parse or there is no such reference.
C4_FirstPurlOnly ==
    ReturnedOk =>
        \A i \in 1..Len(doc) :
           IF PurlIndexes(doc[i]) # {}
              /\ Purl_from_str(FirstPurl(doc[i]).reference_locator).ok
           THEN /\ Has(Out[i], "purl")
                /\ Out[i]["purl"] = FirstPurl(doc[i]).reference_locator
           ELSE ~Has(Out[i], "purl")

C4_Witness ==
    /\ ReturnedOk
    /\ \E i \in 1..Len(doc) :
          /\ Len(doc[i].external_reference) = 2
          /\ doc[i].external_reference[1].reference_type = <<"P", "U", "R", "L">>
          /\ doc[i].external_reference[1].reference_locator = "not-a-purl"
          /\ doc[i].external_reference[2].reference_type = PURL
          /\ doc[i].external_reference[2].reference_locator = "pkg:npm/foo@1.0.0"
          /\ ~Has(Out[i], "purl")

\* C5: a package without a purl reference, or whose purl locator does not
\* parse, never fails the conversion: its component is returned, without a
\* package URL.
C5_PurlNeverFails ==
    (Returned /\ Len(doc) >= 1) =>
        /\ result[1].ok
        /\ Len(Out) = Len(doc)
        /\ \A i \in 1..Len(doc) :
              (\A k \in 1..Len(doc[i].external_reference) :
                  \/ ~IsPurlType(doc[i].external_reference[k].reference_type)
                  \/ doc[i].external_reference[k].reference_locator = "not-a-purl")
              => (~Has(Out[i], "purl")
                  /\ Out[i]["bom-ref"] = doc[i].package_spdx_identifier)

C5_Witness ==
    /\ ReturnedOk
    /\ \E i \in 1..Len(doc) :
          /\ Len(doc[i].external_reference) = 1
          /\ doc[i].external_reference[1].reference_type = PURL
          /\ doc[i].external_reference[1].reference_locator = "not-a-purl"
          /\ ~Has(Out[i], "purl")

\* C6 as stated: the version of a component is its package's version verbatim,
\* and absent when the package has none.
C6_AsStated ==
    ReturnedOk =>
        \A i \in 1..Len(doc) :
           IF IsSome(doc[i].package_version)
           THEN Has(Out[i], "version")
                /\ Out[i]["version"] = doc[i].package_version[1]
           ELSE ~Has(Out[i], "version")

\* C6 amended: the version of a component is its package's version with each
\* CRLF and each other CR, LF and tab replaced by one space, and absent (no
\* key, hence neither empty nor null) when the package has none; the empty
\* placeholder shows only for a package whose own version is empty.
C6_VersionOrAbsent ==
    /\ \A i \in 1..Len(components) :
          components[i].version =
             IF IsSome(doc[i].package_version)
             THEN Some(Spaced(doc[i].package_version[1])) ELSE None
    /\ ReturnedOk =>
          \A i \in 1..Len(doc) :
             IF IsSome(doc[i].package_version)
             THEN Has(Out[i], "version")
                  /\ Out[i]["version"] = Spaced(doc[i].package_version[1])
             ELSE ~Has(Out[i], "version")

C6_Witness ==
    /\ ReturnedOk
    /\ \E i, j \in 1..Len(doc) :
          /\ IsNone(doc[i].package_version)
          /\ ~Has(Out[i], "version")
          /\ IsSome(doc[j].package_version)
          /\ Out[j]["version"] = <<"1">>

\* C7 as stated: the description of a component is its package's summary when
\* there is one, else its detailed description, else absent.
C7_AsStated ==
    ReturnedOk =>
        \A i \in 1..Len(doc) :
           IF IsSome(doc[i].package_summary_description)
           THEN Out[i]["description"] = doc[i].package_summary_description[1]
           ELSE IF IsSome(doc[i].package_detailed_description)
                THEN Out[i]["description"] = doc[i].package_detailed_description[1]
                ELSE ~Has(Out[i], "description")

\* C7 amended: the description of a component is its package's summary when
\* there is one, else its detailed description, in both cases with each CRLF
\* and each other CR, LF and tab replaced by one space, else absent.
C7_SummaryFirst ==
    ReturnedOk =>
        \A i \in 1..Len(doc) :
           IF IsSome(doc[i].package_summary_description)
           THEN Has(Out[i], "description")
                /\ Out[i]["description"] = Spaced(doc[i].package_summary_description[1])
           ELSE IF IsSome(doc[i].package_detailed_description)
                THEN Has(Out[i], "description")
                     /\ Out[i]["description"] =
                           Spaced(doc[i].package_detailed_description[1])
                ELSE ~Has(Out[i], "description")

C7_Witness ==
    /\ ReturnedOk
    /\ \E i \in 1..Len(doc) :
          /\ doc[i].package_summary_description = Some(<<"s">>)
          /\ doc[i].package_detailed_description = Some(<<"d">>)
          /\ Out[i]["description"] = <<"s">>
    /\ \E i \in 1..Len(doc) :
          /\ IsNone(doc[i].package_summary_description)
          /\ IsNone(doc[i].package_detailed_description)
          /\ ~Has(Out[i], "description")

\* C8 as stated: safe_filename("!!!") and safe_filename("") both return "sbom".
C8_AsStated ==
    (IsSome(fn_output) /\ fn_input \in {<<>>, <<"!", "!", "!">>}) =>
        fn_output[1] = SBOM

\* C8 amended: safe_filename("") returns "sbom" and safe_filename("!!!")
\* returns "___"; only the empty input takes the fallback.
C8_FallbackForEmptyOnly ==
    IsSome(fn_output) =>
        /\ fn_input = <<>> => fn_output[1] = <<"s", "b", "o", "m">>
        /\ fn_input = <<"!", "!", "!">> => fn_output[1] = <<"_", "_", "_">>
        /\ fn_input # <<>> => Len(fn_output[1]) = Len(fn_input)

C8_Witness ==
    /\ fn_input = <<"!", "!", "!">>
    /\ fn_output = Some(<<"_", "_", "_">>)

\* the characters safe_filename keeps, among FilenameChars and "sbom"
Kept == {"a", "Z", "7", "-", "_", ".", "s", "b", "o", "m"}

\* C9: safe_filename returns, for a non-empty input, a text of the same
\* length with each kept character in place and '_' for each other one; what
\* it returns has kept characters only, and safe_filename leaves it unchanged.
C9_SanitizedInPlace ==
    IsSome(fn_output) =>
        /\ fn_input # <<>> =>
              /\ Len(fn_output[1]) = Len(fn_input)
              /\ \A i \in 1..Len(fn_input) :
                    fn_output[1][i] = IF fn_input[i] \in Kept THEN fn_input[i] ELSE "_"
        /\ Range(fn_output[1]) \subseteq Kept
        /\ safe_filename(fn_output[1]) = fn_output[1]

C9_Witness ==
    /\ fn_input = <<"a", "/", ".">>
    /\ fn_output = Some(<<"a", "_", ".">>)

\* C10: a click on "Generate CycloneDX" sets local_file to the converted text
\* under the name safe_filename(id) + "-cyclonedx.json" when the document
\* converts; otherwise it leaves local_file as it was, owes no effect (no
\* download) and does not panic. Without a document the handler sets nothing.
C10_GenerateClick ==
    [][/\ GenerateCycloneDXClick =>
            IF IsSome(props.spdx) /\ Len(props.spdx[1]) >= 1
            THEN \E serial \in SerialNumber :
                    local_file' =
                       Some(<<JsonText(generate_cyclonedx(props.spdx[1], serial).value),
                              safe_filename(props.id) \o Suffix>>)
            ELSE /\ local_file' = local_file
                 /\ effect_due' = effect_due
                 /\ anchor' = anchor
                 /\ ~panicked'
       /\ \A serial \in SerialNumber :
             IsNone(on_generate_cyclonedx_click(None, props.id, serial).set)
      ]_vars

C10_Witness ==
    /\ IsSome(log)
    /\ IsSome(local_file)
    /\ Has(local_file[1][1], "json")
    /\ local_file[1][2] = SBOM \o Suffix
    /\ props.spdx = Some(<<>>)

====
